---- MODULE Spec2Model ----
(***************************************************************************)
(* Arpad: the ELO rating calculator.                                       *)
(*                                                                         *)
(* The class ELO holds three fields (k_factor, minimum, maximum) and       *)
(* offers setters, getters and the scoring methods.  Two implementations   *)
(* live in the repository: the class with private fields and K-factor      *)
(* tables, and the older prototype-based module of index.js.  Both are     *)
(* modelled; the older one carries the prefix legacy_.                     *)
(*                                                                         *)
(* JavaScript values are records [t, n, tbl]:                              *)
(*   t = "number"    a finite number, n its value in units of 1/ONE        *)
(*   t = "inf"       +Infinity (n = 1) or -Infinity (n = -1)               *)
(*   t = "huge"      a finite number of 10^4 or more, n its log10 in       *)
(*                   units of 1/ONE                                        *)
(*   t = "tiny"      a positive number below 10^-4, n its log10 likewise   *)
(*   t = "above", "below"   a number just above or just below n / ONE      *)
(*   t = "nan"       NaN                                                   *)
(*   t = "null", "undefined"                                               *)
(*   t = "string"    the property key "default" (the only non-numeric      *)
(*                   string the program handles)                           *)
(*   t = "object"    a K-factor table; tbl is the sequence of its          *)
(*                   properties [key, val] in creation order               *)
(*   t = "array"     an array; tbl is the sequence of its elements         *)
(*   t = "this"      the reference to the calculator instance              *)
(***************************************************************************)
EXTENDS Integers, Sequences, FiniteSets, TLC

\* k_factor, minimum, maximum: the fields of the calculator instance
\* op, args, ret: the last method called, its arguments, what it returned
\* player_rating: the rating a caller keeps and feeds back (alice, bob,
\*         derik of the tests); Undefined where no caller keeps one
\* pc: what the caller is doing: "calls" (any method, any arguments),
\*     "match" (feeding the rating back through newRatingIfWon), or the
\*     boundary test: "start", then one of its two loops, "lose" and "win"
VARIABLES k_factor, minimum, maximum, op, args, ret, player_rating, pc

vars == <<k_factor, minimum, maximum, op, args, ret, player_rating, pc>>

caller == <<player_rating, pc>>

fields == <<k_factor, minimum, maximum>>

(***************************************************************************)
(* Numbers.  A finite number x is held as the integer x * ONE, so that     *)
(* the scores 0.5 and 2.867 and the results of expectedScore are values.   *)
(* Every operation rounds its result to this format's unit, 1/ONE, where   *)
(* a double rounds to 53 bits.                                             *)
(*                                                                         *)
(* A double holds numbers the format does not: Math.pow(10, x) is finite   *)
(* up to about 1.8 * 10^308 and positive down to about 5 * 10^-324, and    *)
(* 1 + p differs from 1 for every p above 2^-53.  Such numbers are held    *)
(* by their class -- huge, tiny, just above or just below a number of the  *)
(* format -- so that the results 0 and 1 are the ones the double gives.    *)
(***************************************************************************)
ONE == 10 ^ 4

Val(type, x) == [t |-> type, n |-> x, tbl |-> <<>>]

Num(x) == Val("number", x)

Whole(i) == Num(i * ONE)

\* a finite number of 10^4 or more; x is its log10 in units of 1/ONE
Huge(x) == Val("huge", x)

\* a positive number below 10^-4; x is its log10 in units of 1/ONE
Tiny(x) == Val("tiny", x)

\* 1 + t, and 1 / (1 + t), for a tiny t that the sum 1 + t keeps
AboveOne == Val("above", ONE)

BelowOne == Val("below", ONE)

\* log10 of Number.MAX_VALUE (308.2547...), of 2^-1075 (-323.6072...), the
\* least p that Math.pow does not round to 0, and of 2^-53 (-15.9545...),
\* the greatest p for which 1 + p is 1; in units of 1/ONE
Log10MaxValue == 308 * ONE + 2547

Log10MinValue == 0 - (323 * ONE + 6072)

Log10HalfEpsilon == 0 - (15 * ONE + 9546)

Infinity == Val("inf", 1)

NegInfinity == Val("inf", -1)

NaN == Val("nan", 0)

Null == Val("null", 0)

Undefined == Val("undefined", 0)

This == Val("this", 0)

Str == Val("string", 0)

Arr(items) == [t |-> "array", n |-> 0, tbl |-> items]

Obj(entries) == [t |-> "object", n |-> 0, tbl |-> entries]

Prop(k, v) == [key |-> k, val |-> v]

\* typeof v === 'number'
TypeofNumber(v) == v.t \in {"number", "inf", "nan", "huge", "tiny", "above", "below"}

\* ToBoolean(v): what `if (v)` and `!v` test
Truthy(v) ==
  CASE v.t = "number" -> v.n # 0
    [] v.t \in {"inf", "huge", "tiny", "above", "below"} -> TRUE
    [] v.t = "object" -> TRUE
    [] v.t = "this" -> TRUE
    [] v.t = "string" -> TRUE
    [] OTHER -> FALSE

\* ToNumber taking null to NaN, as it takes undefined
ToNumber_nullIsNaN(v) ==
  CASE TypeofNumber(v) -> v
    [] OTHER -> NaN

\* ToNumber(v): null is 0; undefined, a plain object and "default" are NaN
ToNumber(v) ==
  CASE TypeofNumber(v) -> v
    [] v.t = "null" -> Whole(0)
    [] OTHER -> NaN

Sign(x) == IF x > 0 THEN 1 ELSE IF x < 0 THEN -1 ELSE 0

\* a number rounded to the format: a tiny one to 0, one just above or
\* below n to n; a huge one overflows the format
Fix(v) ==
  CASE v.t = "tiny" -> Whole(0)
    [] v.t \in {"above", "below"} -> Num(v.n)
    [] v.t = "huge" -> Infinity
    [] OTHER -> v

\* on which side of Fix(v) the number v lies
Mark(v) ==
  CASE v.t \in {"tiny", "above"} -> 1
    [] v.t = "below" -> -1
    [] OTHER -> 0

\* a < b on numbers: false when either is NaN
NumLt(a, b) ==
  CASE a.t = "nan" \/ b.t = "nan" -> FALSE
    [] a.t = "inf" /\ b.t = "inf" -> a.n < b.n
    [] a.t = "inf" -> a.n < 0
    [] b.t = "inf" -> b.n > 0
    [] a.t = "huge" /\ b.t = "huge" -> a.n < b.n
    [] a.t = "huge" -> FALSE
    [] b.t = "huge" -> TRUE
    [] a.t = "tiny" /\ b.t = "tiny" -> a.n < b.n
    [] OTHER -> \/ Fix(a).n < Fix(b).n
                \/ Fix(a).n = Fix(b).n /\ Mark(a) < Mark(b)

NumEq(a, b) == a.t # "nan" /\ b.t # "nan" /\ a = b

\* the operators <, >, <= of the language, operands converted to numbers
\* (x and y: each operand, evaluated once)
Lt(a, b) == \E x \in {ToNumber(a)}, y \in {ToNumber(b)} : NumLt(x, y)

Gt(a, b) == \E x \in {ToNumber(a)}, y \in {ToNumber(b)} : NumLt(y, x)

Le(a, b) == \E x \in {ToNumber(a)}, y \in {ToNumber(b)} : NumLt(x, y) \/ NumEq(x, y)

\* a + b.  1 + p keeps a tiny p above 2^-53 and is 1 for a smaller one; a
\* huge term is the sum; every other sum is taken in the format
NumAdd(a, b) ==
  CASE a.t = "nan" \/ b.t = "nan" -> NaN
    [] a = Whole(1) /\ b.t = "tiny" -> IF b.n <= Log10HalfEpsilon THEN a ELSE AboveOne
    [] a.t = "number" /\ b.t = "huge" -> b
    [] Fix(a).t = "number" /\ Fix(b).t = "number" -> Num(Fix(a).n + Fix(b).n)
    [] Fix(a).t = "inf" /\ Fix(b).t = "inf" -> IF Fix(a).n = Fix(b).n THEN Fix(a) ELSE NaN
    [] Fix(a).t = "inf" -> Fix(a)
    [] OTHER -> Fix(b)

NumNeg(a) == IF a.t = "nan" THEN NaN ELSE Val(Fix(a).t, 0 - Fix(a).n)

\* the product of two finite numbers; exact whenever either is an integer
MulFix(x, y) == (x \div ONE) * y + ((x % ONE) * y) \div ONE

NumMul(a, b) ==
  CASE a.t = "nan" \/ b.t = "nan" -> NaN
    [] Fix(a).t = "number" /\ Fix(b).t = "number" -> Num(MulFix(Fix(a).n, Fix(b).n))
    [] Sign(Fix(a).n) * Sign(Fix(b).n) = 0 -> NaN
    [] OTHER -> Val("inf", Sign(Fix(a).n) * Sign(Fix(b).n))

\* the element of a one-element set
Only(S) == CHOOSE z \in S : TRUE

\* the operators +, -, * of the language on non-string operands
\* (x and y: each operand, evaluated once)
Add(a, b) == Only({NumAdd(x, y) : x \in {ToNumber(a)}, y \in {ToNumber(b)}})

Sub(a, b) == Only({NumAdd(x, NumNeg(y)) : x \in {ToNumber(a)}, y \in {ToNumber(b)}})

Mul(a, b) == Only({NumMul(x, y) : x \in {ToNumber(a)}, y \in {ToNumber(b)}})

\* Math.round with an exact half going away from zero
MathRound_halfAwayFromZero(v) ==
  Only({IF x.t # "number" THEN x
        ELSE IF x.n >= 0 THEN Num(((x.n + ONE \div 2) \div ONE) * ONE)
        ELSE Num(0 - (((0 - x.n) + ONE \div 2) \div ONE) * ONE) :
        x \in {Fix(ToNumber(v))}})

\* Math.round: the nearest integer, an exact half going up
MathRound(v) ==
  Only({IF x.t = "number" THEN Num(((x.n + ONE \div 2) \div ONE) * ONE) ELSE x :
        x \in {Fix(ToNumber(v))}})

\* x / y for finite x and y > 0, to the nearest unit; a whole divisor is
\* divided by directly, which keeps rating / 400 exact
DivFix(x, y) ==
  IF y % ONE = 0 THEN (x + (y \div ONE) \div 2) \div (y \div ONE)
  ELSE (2 * x * ONE + y) \div (2 * y)

\* a / b of the language for a divisor b > 0 or infinite.  1 / s is tiny
\* for a huge s (never 0: the least is about 5.6 * 10^-309) and just below
\* 1 for s just above 1; every other quotient is taken in the format
NumDiv(a, b) ==
  CASE a.t = "nan" \/ b.t = "nan" -> NaN
    [] a = Whole(1) /\ b.t = "huge" -> Tiny(0 - b.n)
    [] a = Whole(1) /\ b = AboveOne -> BelowOne
    [] Fix(a).t = "number" /\ Fix(b).t = "number" -> Num(DivFix(Fix(a).n, Fix(b).n))
    [] Fix(a).t = "inf" /\ Fix(b).t = "inf" -> NaN
    [] Fix(a).t = "inf" -> Fix(a)
    [] OTHER -> Whole(0)

Div(a, b) == Only({NumDiv(x, y) : x \in {ToNumber(a)}, y \in {ToNumber(b)}})

(***************************************************************************)
(* Math.pow(10, x).  For a result inside the format, 10^-4 <= 10^x < 10^4, *)
(* the exponent is split into its integer part and its four decimal        *)
(* digits; 10^0.1, 10^0.01, 10^0.001 and 10^0.0001 are held to six         *)
(* decimals and multiplied up.  Outside the format the result is huge or   *)
(* tiny, Infinity above Number.MAX_VALUE and 0 below 2^-1075.              *)
(***************************************************************************)
Pow10Digit == <<1258925, 1023293, 1002305, 1000230>>

\* x * y for x, y in units of 10^-6, both below 10
Mul6(x, y) ==
  LET xh == x \div 1000
      xl == x % 1000
      yh == y \div 1000
      yl == y % 1000
  IN  xh * yh + (xh * yl + xl * yh) \div 1000

RECURSIVE PowInt(_, _)
PowInt(b, e) == IF e = 0 THEN 10 ^ 6 ELSE Mul6(b, PowInt(b, e - 1))

\* 10^(f / ONE) for 0 <= f < ONE, in units of 1/ONE
Mantissa(f) ==
  LET d1 == f \div 1000
      d2 == (f \div 100) % 10
      d3 == (f \div 10) % 10
      d4 == f % 10
      m  == Mul6(Mul6(PowInt(Pow10Digit[1], d1), PowInt(Pow10Digit[2], d2)),
                 Mul6(PowInt(Pow10Digit[3], d3), PowInt(Pow10Digit[4], d4)))
  IN  (m + 50) \div 100

MathPow10(v) ==
  LET x == Fix(ToNumber(v))
      q == x.n \div ONE
      f == x.n % ONE
  IN  CASE x.t = "nan" -> NaN
        [] x.t = "inf" -> IF x.n > 0 THEN Infinity ELSE Whole(0)
        [] x.n > Log10MaxValue -> Infinity
        [] q >= 4 -> Huge(x.n)
        [] q >= 0 -> Num(Mantissa(f) * 10 ^ q)
        [] q >= -4 -> Num(Mantissa(f) \div 10 ^ (0 - q))
        [] x.n >= Log10MinValue -> Tiny(x.n)
        [] OTHER -> Whole(0)

(***************************************************************************)
(* Objects: property lookup and Object.keys.                               *)
(***************************************************************************)
\* a property key that is an array index: the canonical string of an
\* integer 0 .. 2^32 - 2 (the model's keys stay far below the upper end)
IsIndex(k) == k.t = "number" /\ k.n >= 0 /\ k.n % ONE = 0

RECURSIVE SortAsc(_)
SortAsc(S) ==
  IF S = {} THEN <<>>
  ELSE LET m == CHOOSE x \in S : \A y \in S : x.n <= y.n
       IN  <<m>> \o SortAsc(S \ {m})

\* Object.keys(o): the index keys in ascending numeric order, then the
\* other keys in the order the properties were created
ObjectKeys(o) ==
  LET keys == [i \in 1..Len(o.tbl) |-> o.tbl[i].key]
  IN  SortAsc({keys[i] : i \in {j \in 1..Len(keys) : IsIndex(keys[j])}})
        \o SelectSeq(keys, LAMBDA k : ~IsIndex(k))

\* o[k], undefined when o has no such property
Get(o, k) ==
  IF \E i \in 1..Len(o.tbl) : o.tbl[i].key = k
  THEN o.tbl[CHOOSE i \in 1..Len(o.tbl) : o.tbl[i].key = k].val
  ELSE Undefined

(***************************************************************************)
(* class ELO                                                               *)
(***************************************************************************)
DEFAULT_K_FACTOR == 32

\* half the constant
PERF_halved == 400 \div 2

PERF == 400

OUTCOME_LOST == Whole(0)

OUTCOME_TIED == Num(ONE \div 2)

OUTCOME_WON == Whole(1)

\* the constructor testing `min` where it should test `max`
constructor_testsMinTwice(k, min, max) ==
  [k_factor |-> IF Truthy(k) THEN k ELSE Whole(DEFAULT_K_FACTOR),
   minimum  |-> IF min.t # "undefined" THEN min ELSE NegInfinity,
   maximum  |-> IF min.t # "undefined" THEN max ELSE Infinity]

\* the instance after `new ELO(k, min, max)`
constructor(k, min, max) ==
  [k_factor |-> IF Truthy(k) THEN k ELSE Whole(DEFAULT_K_FACTOR),
   minimum  |-> IF min.t # "undefined" THEN min ELSE NegInfinity,
   maximum  |-> IF max.t # "undefined" THEN max ELSE Infinity]

\* the forEach of getKFactor over keys[i..]: k is the K-factor so far
RECURSIVE forEachKey(_, _, _, _)
forEachKey(keys, i, rating, k) ==
  IF i > Len(keys) THEN k
  ELSE LET minimum_rating == keys[i]
           current_k_factor == Get(k_factor, minimum_rating)
       IN  forEachKey(keys, i + 1, rating,
                      IF Le(minimum_rating, rating) THEN current_k_factor ELSE k)

\* getKFactor answering a missing rating with the default before it looks
\* at the policy
getKFactor_testsRatingFirst(rating) ==
  IF ~Truthy(rating) THEN Whole(DEFAULT_K_FACTOR)
  ELSE IF TypeofNumber(k_factor) THEN k_factor
  ELSE LET k == IF Truthy(Get(k_factor, Str)) THEN Get(k_factor, Str) ELSE Null
       IN  forEachKey(ObjectKeys(k_factor), 1, rating, k)

getKFactor(rating) ==
  IF TypeofNumber(k_factor) THEN k_factor
  ELSE LET r == IF ~Truthy(rating) THEN Whole(0) ELSE rating
           k == IF Truthy(Get(k_factor, Str)) THEN Get(k_factor, Str) ELSE Null
       IN  forEachKey(ObjectKeys(k_factor), 1, r, k)

getMin == minimum

getMax == maximum

\* expectedScore with 2 for the 1 of the denominator
expectedScore_twoPlus(r, opponent_rating) ==
  LET difference == Sub(opponent_rating, r)
  IN  Div(Whole(1), Add(Whole(2), MathPow10(Div(difference, Whole(PERF)))))

\* expectedScore with the difference taken the other way round
expectedScore_ownMinusOpponent(r, opponent_rating) ==
  LET difference == Sub(r, opponent_rating)
  IN  Div(Whole(1), Add(Whole(1), MathPow10(Div(difference, Whole(PERF)))))

expectedScore(r, opponent_rating) ==
  LET difference == Sub(opponent_rating, r)
  IN  Div(Whole(1), Add(Whole(1), MathPow10(Div(difference, Whole(PERF)))))

\* bothExpectedScores with the opponent's score first
bothExpectedScores_opponentFirst(player_1_rating, player_2_rating) ==
  Arr(<<expectedScore(player_2_rating, player_1_rating),
        expectedScore(player_1_rating, player_2_rating)>>)

bothExpectedScores(player_1_rating, player_2_rating) ==
  Arr(<<expectedScore(player_1_rating, player_2_rating),
        expectedScore(player_2_rating, player_1_rating)>>)

\* newRating without the test against the maximum
newRating_noUpperClamp(expected_score, actual_score, previous_rating) ==
  LET difference == Sub(actual_score, expected_score)
  IN  Only({IF Lt(r, minimum) THEN minimum ELSE r :
            r \in {MathRound(Add(previous_rating,
                                 Mul(getKFactor(previous_rating), difference)))}})

\* newRating testing the previous rating, not the new one, against the minimum
newRating_clampsPrevious(expected_score, actual_score, previous_rating) ==
  LET difference == Sub(actual_score, expected_score)
  IN  Only({IF Lt(previous_rating, minimum) THEN minimum
            ELSE IF Gt(r, maximum) THEN maximum
            ELSE r :
            r \in {MathRound(Add(previous_rating,
                                 Mul(getKFactor(previous_rating), difference)))}})

newRating(expected_score, actual_score, previous_rating) ==
  LET difference == Sub(actual_score, expected_score)
  IN  Only({IF Lt(r, minimum) THEN minimum
            ELSE IF Gt(r, maximum) THEN maximum
            ELSE r :
            r \in {MathRound(Add(previous_rating,
                                 Mul(getKFactor(previous_rating), difference)))}})

newRatingIfWon(r, opponent_rating) ==
  LET odds == expectedScore(r, opponent_rating)
  IN  newRating(odds, OUTCOME_WON, r)

newRatingIfLost(r, opponent_rating) ==
  LET odds == expectedScore(r, opponent_rating)
  IN  newRating(odds, OUTCOME_LOST, r)

\* newRatingIfTied with the two ratings swapped in the expected score
newRatingIfTied_swapped(r, opponent_rating) ==
  LET odds == expectedScore(opponent_rating, r)
  IN  newRating(odds, OUTCOME_TIED, r)

newRatingIfTied(r, opponent_rating) ==
  LET odds == expectedScore(r, opponent_rating)
  IN  newRating(odds, OUTCOME_TIED, r)

(***************************************************************************)
(* The methods as steps of a caller.  A setter writes its field and        *)
(* returns the instance; every other method only returns a value.          *)
(***************************************************************************)
Call(name, arguments, result) ==
  /\ op' = name
  /\ args' = arguments
  /\ ret' = result

setKFactor(k) ==
  /\ k_factor' = IF Truthy(k) THEN k ELSE Whole(DEFAULT_K_FACTOR)
  /\ UNCHANGED <<minimum, maximum, caller>>
  /\ Call("setKFactor", <<k>>, This)

\* setMin writing the maximum as well
setMin_writesBoth(min) ==
  /\ minimum' = min
  /\ maximum' = min
  /\ UNCHANGED <<k_factor, caller>>
  /\ Call("setMin", <<min>>, This)

setMin(min) ==
  /\ minimum' = min
  /\ UNCHANGED <<k_factor, maximum, caller>>
  /\ Call("setMin", <<min>>, This)

setMax(max) ==
  /\ maximum' = max
  /\ UNCHANGED <<k_factor, minimum, caller>>
  /\ Call("setMax", <<max>>, This)

Call_getKFactor(r) ==
  /\ Call("getKFactor", <<r>>, getKFactor(r))
  /\ UNCHANGED <<k_factor, minimum, maximum, caller>>

Call_getMin ==
  /\ Call("getMin", <<>>, getMin)
  /\ UNCHANGED <<k_factor, minimum, maximum, caller>>

Call_getMax ==
  /\ Call("getMax", <<>>, getMax)
  /\ UNCHANGED <<k_factor, minimum, maximum, caller>>

Call_expectedScore(r, o) ==
  /\ Call("expectedScore", <<r, o>>, expectedScore(r, o))
  /\ UNCHANGED <<k_factor, minimum, maximum, caller>>

Call_bothExpectedScores(a, b) ==
  /\ Call("bothExpectedScores", <<a, b>>, bothExpectedScores(a, b))
  /\ UNCHANGED <<k_factor, minimum, maximum, caller>>

\* newRating keeping its result as the new minimum
Call_newRating_storesResult(e, a, p) ==
  /\ Call("newRating", <<e, a, p>>, newRating(e, a, p))
  /\ minimum' = newRating(e, a, p)
  /\ UNCHANGED <<k_factor, maximum, caller>>

Call_newRating(e, a, p) ==
  /\ Call("newRating", <<e, a, p>>, newRating(e, a, p))
  /\ UNCHANGED <<k_factor, minimum, maximum, caller>>

Call_newRatingIfWon(r, o) ==
  /\ Call("newRatingIfWon", <<r, o>>, newRatingIfWon(r, o))
  /\ UNCHANGED <<k_factor, minimum, maximum, caller>>

Call_newRatingIfLost(r, o) ==
  /\ Call("newRatingIfLost", <<r, o>>, newRatingIfLost(r, o))
  /\ UNCHANGED <<k_factor, minimum, maximum, caller>>

Call_newRatingIfTied(r, o) ==
  /\ Call("newRatingIfTied", <<r, o>>, newRatingIfTied(r, o))
  /\ UNCHANGED <<k_factor, minimum, maximum, caller>>

\* `new ELO(k, min, max)`
New(k, min, max) ==
  /\ k_factor = constructor(k, min, max).k_factor
  /\ minimum = constructor(k, min, max).minimum
  /\ maximum = constructor(k, min, max).maximum
  /\ op = "constructor"
  /\ args = <<k, min, max>>
  /\ ret = This

(***************************************************************************)
(* Inputs.  The tables and numbers are those of the tests.                 *)
(***************************************************************************)
\* {default: 100, 0: 50, 1000: 25}
BandTable ==
  Obj(<<Prop(Str, Whole(100)), Prop(Whole(0), Whole(50)),
        Prop(Whole(1000), Whole(25))>>)

\* {0: 32, 2100: 24, 2400: 16}
UscfTable ==
  Obj(<<Prop(Whole(0), Whole(32)), Prop(Whole(2100), Whole(24)),
        Prop(Whole(2400), Whole(16))>>)

KArgs == {Undefined, Whole(0), Whole(20), Whole(31), BandTable, UscfTable}

MinArgs == {NegInfinity, Whole(-2000), Whole(100)}

MaxArgs == {Infinity, Whole(50), Whole(2000), Whole(2800)}

Ratings == {Whole(-500), Whole(500), Whole(950), Whole(1000), Whole(1613), Whole(2790)}

Opponents == {Whole(1300), Whole(2000)}

RatingArgs == Ratings \cup {Undefined, Null, NegInfinity, Infinity, Whole(0), Whole(-1)}

\* 0, 0.5, 1 and the 2.867 of the published example
ExpectedScores == {Whole(0), Num(ONE \div 2), Whole(1), Num(2867 * (ONE \div 1000))}

ActualScores == {Whole(0), Num(ONE \div 2), Whole(1), Whole(3)}

(***************************************************************************)
(* Spec: one calculator, constructed with any arguments, then any          *)
(* sequence of method calls.                                               *)
(***************************************************************************)
Init ==
  /\ \E k \in KArgs, min \in MinArgs \cup {Undefined}, max \in MaxArgs \cup {Undefined} :
       New(k, min, max)
  /\ player_rating = Undefined
  /\ pc = "calls"

Next ==
  \/ \E k \in KArgs : setKFactor(k)
  \/ \E min \in MinArgs : setMin(min)
  \/ \E max \in MaxArgs : setMax(max)
  \/ \E r \in RatingArgs : Call_getKFactor(r)
  \/ Call_getMin
  \/ Call_getMax
  \/ \E r \in Ratings, o \in Opponents : Call_expectedScore(r, o)
  \/ \E a \in Ratings, b \in Opponents : Call_bothExpectedScores(a, b)
  \/ \E e \in ExpectedScores, a \in ActualScores, p \in Ratings : Call_newRating(e, a, p)
  \/ \E r \in Ratings, o \in Opponents : Call_newRatingIfWon(r, o)
  \/ \E r \in Ratings, o \in Opponents : Call_newRatingIfLost(r, o)
  \/ \E r \in Ratings, o \in Opponents : Call_newRatingIfTied(r, o)

Spec == Init /\ [][Next]_vars

(***************************************************************************)
(* SpecTable: getKFactor on every table of up to MaxEntries properties     *)
(* drawn from TableEntries, in every order of creation.                    *)
(***************************************************************************)
MaxEntries == 3

TableEntries ==
  {Prop(Str, Whole(100)), Prop(Whole(0), Whole(50)),
   Prop(Whole(1000), Whole(25)), Prop(Whole(-1000), Whole(75))}

Tables ==
  {Obj(s) : s \in {q \in UNION {[1..n -> TableEntries] : n \in 0..MaxEntries} :
                     \A i, j \in DOMAIN q : q[i].key = q[j].key => i = j}}

LookupRatings ==
  {Undefined, Null, NegInfinity, Infinity, Whole(-1500), Whole(-1000), Whole(-1),
   Whole(0), Whole(500), Whole(1000), Whole(2000)}

InitTable ==
  /\ \E t \in Tables : New(t, Undefined, Undefined)
  /\ player_rating = Undefined
  /\ pc = "calls"

NextTable ==
  \/ \E t \in Tables : setKFactor(t)
  \/ \E r \in LookupRatings : Call_getKFactor(r)

SpecTable == InitTable /\ [][NextTable]_vars

(***************************************************************************)
(* A caller that keeps a rating and feeds it back:                         *)
(*   derik = elo.newRatingIfWon(derik, bob)                                *)
(***************************************************************************)
PlayWon(o) ==
  /\ pc = "match"
  /\ player_rating' = newRatingIfWon(player_rating, o)
  /\ Call("newRatingIfWon", <<player_rating, o>>, newRatingIfWon(player_rating, o))
  /\ UNCHANGED <<k_factor, minimum, maximum, pc>>

PlayLost(o) ==
  /\ pc = "match"
  /\ player_rating' = newRatingIfLost(player_rating, o)
  /\ Call("newRatingIfLost", <<player_rating, o>>, newRatingIfLost(player_rating, o))
  /\ UNCHANGED <<k_factor, minimum, maximum, pc>>

PlayTied(o) ==
  /\ pc = "match"
  /\ player_rating' = newRatingIfTied(player_rating, o)
  /\ Call("newRatingIfTied", <<player_rating, o>>, newRatingIfTied(player_rating, o))
  /\ UNCHANGED <<k_factor, minimum, maximum, pc>>

MatchStarts == {Whole(-500), Whole(500), Whole(950)}

MatchOpponents == {Whole(2000)}

InitMatch ==
  /\ \E k \in {Whole(32), BandTable, UscfTable} : New(k, Whole(-2000), Whole(2000))
  /\ player_rating \in MatchStarts
  /\ pc = "match"

NextMatch ==
  \/ \E o \in MatchOpponents : PlayWon(o)
  \/ \E o \in MatchOpponents : PlayLost(o)
  \/ \E o \in MatchOpponents : PlayTied(o)

SpecMatch == InitMatch /\ [][NextMatch]_vars

(***************************************************************************)
(* The boundary test: new Elo(32, 100, 2800), then                         *)
(*   alice = elo.newRating(1, 0, alice)   over and over  (pc = "lose")     *)
(*   bob = elo.newRating(0, 1, bob)       over and over  (pc = "win")      *)
(* The loop body always runs again, hence the weak fairness.               *)
(***************************************************************************)
LoopK == 32

LoopMin == 100

LoopMax == 2800

LoseAgain ==
  /\ pc = "lose"
  /\ player_rating' = newRating(Whole(1), Whole(0), player_rating)
  /\ Call("newRating", <<Whole(1), Whole(0), player_rating>>,
          newRating(Whole(1), Whole(0), player_rating))
  /\ UNCHANGED <<k_factor, minimum, maximum, pc>>

WinAgain ==
  /\ pc = "win"
  /\ player_rating' = newRating(Whole(0), Whole(1), player_rating)
  /\ Call("newRating", <<Whole(0), Whole(1), player_rating>>,
          newRating(Whole(0), Whole(1), player_rating))
  /\ UNCHANGED <<k_factor, minimum, maximum, pc>>

\* `var alice = 2000;` / `var bob = 200;`, for every start in the bounds
StartLoop(i, loop) ==
  /\ pc = "start"
  /\ pc' = loop
  /\ player_rating' = Whole(i)
  /\ UNCHANGED <<k_factor, minimum, maximum, op, args, ret>>

InitLoop ==
  /\ New(Whole(LoopK), Whole(LoopMin), Whole(LoopMax))
  /\ player_rating = Undefined
  /\ pc = "start"

NextLoop ==
  \/ \E i \in LoopMin..LoopMax, loop \in {"lose", "win"} : StartLoop(i, loop)
  \/ LoseAgain
  \/ WinAgain

SpecLoop == InitLoop /\ [][NextLoop]_vars /\ WF_vars(NextLoop)

(***************************************************************************)
(* SpecScore: the expected scores of, and the matches between, every pair  *)
(* of ScoreRatings -- equal ratings, the pairs of the tests, and gaps wide *)
(* enough for Math.pow to leave the range in which 1 + p differs from 1 -- *)
(* under constant and table policies, without bounds and within [0, 2500]. *)
(***************************************************************************)
ScoreRatings ==
  {Whole(-500), Whole(0), Whole(1), Whole(1200), Whole(1400), Whole(1609),
   Whole(1613), Whole(6381), Whole(6382), Whole(7000), Whole(130000)}

ScoreKArgs == {Undefined, Whole(1), Whole(20), Whole(31), BandTable}

InitScore ==
  /\ \E k \in ScoreKArgs :
       \/ New(k, Undefined, Undefined)
       \/ New(k, Whole(0), Whole(2500))
  /\ player_rating = Undefined
  /\ pc = "calls"

\* one call on the calculator just constructed (no call changes what the
\* next one reads)
NextScore ==
  /\ op = "constructor"
  /\ \/ \E a \in ScoreRatings, b \in ScoreRatings : Call_expectedScore(a, b)
     \/ \E a \in ScoreRatings, b \in ScoreRatings : Call_bothExpectedScores(a, b)
     \/ \E r \in ScoreRatings, o \in ScoreRatings : Call_newRatingIfWon(r, o)
     \/ \E r \in ScoreRatings, o \in ScoreRatings : Call_newRatingIfLost(r, o)
     \/ \E r \in ScoreRatings, o \in ScoreRatings : Call_newRatingIfTied(r, o)

SpecScore == InitScore /\ [][NextScore]_vars

(***************************************************************************)
(* The prototype-based module of index.js: the same three fields, a        *)
(* K-factor that is used as it is.  (Its fourth field, method, is set to   *)
(* 'simple' by the constructor and never read or written again.)           *)
(***************************************************************************)
PERFORMANCE_CONSTANT == 400

legacy_constructor(k, min, max) ==
  [k_factor |-> IF Truthy(k) THEN k ELSE Whole(32),
   minimum  |-> IF min.t # "undefined" THEN min ELSE NegInfinity,
   maximum  |-> IF max.t # "undefined" THEN max ELSE Infinity]

legacy_getKFactor == k_factor

legacy_expectedScore(score, opponent_score) ==
  LET difference == Sub(opponent_score, score)
      performance ==
        Div(Whole(1), Add(Whole(1), MathPow10(Div(difference, Whole(PERFORMANCE_CONSTANT)))))
  IN  performance

legacy_newRating(expected, score, previous) ==
  LET difference == Sub(score, expected)
  IN  Only({IF Lt(r, minimum) THEN minimum
            ELSE IF Gt(r, maximum) THEN maximum
            ELSE r :
            r \in {MathRound(Add(previous, Mul(k_factor, difference)))}})

legacy_newRatingIfWon(score, opponent_score) ==
  LET odds == legacy_expectedScore(score, opponent_score)
  IN  legacy_newRating(odds, Whole(1), score)

legacy_newRatingIfLost(score, opponent_score) ==
  LET odds == legacy_expectedScore(score, opponent_score)
  IN  legacy_newRating(odds, Whole(0), score)

legacy_newRatingIfTied(score, opponent_score) ==
  LET odds == legacy_expectedScore(score, opponent_score)
  IN  legacy_newRating(odds, Num(ONE \div 2), score)

legacy_New(k, min, max) ==
  /\ k_factor = legacy_constructor(k, min, max).k_factor
  /\ minimum = legacy_constructor(k, min, max).minimum
  /\ maximum = legacy_constructor(k, min, max).maximum
  /\ op = "constructor"
  /\ args = <<k, min, max>>
  /\ ret = This

legacy_setKFactor(k) ==
  /\ pc = "calls"
  /\ k_factor' = k
  /\ UNCHANGED <<minimum, maximum, caller>>
  /\ Call("setKFactor", <<k>>, This)

legacy_setMin(min) ==
  /\ pc = "calls"
  /\ minimum' = min
  /\ UNCHANGED <<k_factor, maximum, caller>>
  /\ Call("setMin", <<min>>, This)

legacy_setMax(max) ==
  /\ pc = "calls"
  /\ maximum' = max
  /\ UNCHANGED <<k_factor, minimum, caller>>
  /\ Call("setMax", <<max>>, This)

Call_legacy_getKFactor ==
  /\ pc = "calls"
  /\ Call("getKFactor", <<>>, legacy_getKFactor)
  /\ UNCHANGED <<k_factor, minimum, maximum, caller>>

Call_legacy_expectedScore(r, o) ==
  /\ pc = "calls"
  /\ Call("expectedScore", <<r, o>>, legacy_expectedScore(r, o))
  /\ UNCHANGED <<k_factor, minimum, maximum, caller>>

Call_legacy_newRating(e, a, p) ==
  /\ pc = "calls"
  /\ Call("newRating", <<e, a, p>>, legacy_newRating(e, a, p))
  /\ UNCHANGED <<k_factor, minimum, maximum, caller>>

Call_legacy_newRatingIfWon(r, o) ==
  /\ pc = "calls"
  /\ Call("newRatingIfWon", <<r, o>>, legacy_newRatingIfWon(r, o))
  /\ UNCHANGED <<k_factor, minimum, maximum, caller>>

Call_legacy_newRatingIfLost(r, o) ==
  /\ pc = "calls"
  /\ Call("newRatingIfLost", <<r, o>>, legacy_newRatingIfLost(r, o))
  /\ UNCHANGED <<k_factor, minimum, maximum, caller>>

Call_legacy_newRatingIfTied(r, o) ==
  /\ pc = "calls"
  /\ Call("newRatingIfTied", <<r, o>>, legacy_newRatingIfTied(r, o))
  /\ UNCHANGED <<k_factor, minimum, maximum, caller>>

legacy_PlayWon(o) ==
  /\ pc = "match"
  /\ player_rating' = legacy_newRatingIfWon(player_rating, o)
  /\ Call("newRatingIfWon", <<player_rating, o>>, legacy_newRatingIfWon(player_rating, o))
  /\ UNCHANGED <<k_factor, minimum, maximum, pc>>

InitLegacy ==
  \/ /\ \E k \in KArgs, min \in {Undefined, Whole(100)}, max \in {Undefined, Whole(2800)} :
          legacy_New(k, min, max)
     /\ player_rating = Undefined
     /\ pc = "calls"
  \/ /\ \E k \in {Whole(32), BandTable} : legacy_New(k, Whole(-2000), Whole(2000))
     /\ player_rating \in MatchStarts
     /\ pc = "match"

NextLegacy ==
  \/ \E k \in KArgs : legacy_setKFactor(k)
  \/ \E min \in {NegInfinity, Whole(100)} : legacy_setMin(min)
  \/ \E max \in {Infinity, Whole(2800)} : legacy_setMax(max)
  \/ Call_legacy_getKFactor
  \/ \E r \in Ratings, o \in Opponents : Call_legacy_expectedScore(r, o)
  \/ \E e \in ExpectedScores, a \in ActualScores, p \in Ratings : Call_legacy_newRating(e, a, p)
  \/ \E r \in Ratings, o \in Opponents : Call_legacy_newRatingIfWon(r, o)
  \/ \E r \in Ratings, o \in Opponents : Call_legacy_newRatingIfLost(r, o)
  \/ \E r \in Ratings, o \in Opponents : Call_legacy_newRatingIfTied(r, o)
  \/ \E o \in MatchOpponents : legacy_PlayWon(o)

SpecLegacy == InitLegacy /\ [][NextLegacy]_vars

(***************************************************************************)
(* The table lookup as the documentation states it.                        *)
(***************************************************************************)
\* the rating a lookup is made for: an absent or null rating counts as 0
QueryRating(r) == IF r.t \in {"undefined", "null"} THEN Whole(0) ELSE r

\* the numeric thresholds of table o that are <= r
Qualifying(o, r) ==
  {i \in 1..Len(o.tbl) : o.tbl[i].key.t = "number" /\ Le(o.tbl[i].key, r)}

HasDefault(o) == \E i \in 1..Len(o.tbl) : o.tbl[i].key = Str

\* the value at the greatest threshold <= r, else the default entry, else null
Documented(o, r) ==
  IF Qualifying(o, r) # {}
  THEN o.tbl[CHOOSE i \in Qualifying(o, r) :
               \A j \in Qualifying(o, r) : o.tbl[j].key.n <= o.tbl[i].key.n].val
  ELSE IF HasDefault(o) THEN Get(o, Str)
  ELSE Null

\* C1: for a table policy, getKFactor(r) returns the value at the greatest
\* numeric threshold <= r (an absent or null r counting as 0), else the
\* 'default' entry, else null -- for every table, negative thresholds
\* included, whatever the order its entries were supplied in.
C1_GreatestThreshold ==
  (op = "getKFactor" /\ k_factor.t = "object")
    => ret = Documented(k_factor, QueryRating(args[1]))

\* C1 restricted to the tables whose thresholds are all non-negative
\* integers (the tables of the tests): there the lookup is as documented.
C1_IndexThresholds ==
  (/\ op = "getKFactor"
   /\ k_factor.t = "object"
   /\ \A i \in 1..Len(k_factor.tbl) :
        IsIndex(k_factor.tbl[i].key) \/ k_factor.tbl[i].key = Str)
    => ret = Documented(k_factor, QueryRating(args[1]))

(***************************************************************************)
(* newRating: bounds, rounding, clamping.                                  *)
(***************************************************************************)
RatingOps == {"newRating", "newRatingIfWon", "newRatingIfLost", "newRatingIfTied"}

FiniteBounds == minimum.t = "number" /\ maximum.t = "number"

\* C2 as stated: with finite bounds, every rating returned by newRating and
\* by newRatingIfWon / IfLost / IfTied lies in [minimum, maximum].
C2_WithinBounds ==
  (op \in RatingOps /\ FiniteBounds)
    => (Le(minimum, ret) /\ Le(ret, maximum))

\* C2 amended: with finite bounds and minimum <= maximum, every rating
\* returned by newRating and by newRatingIfWon / IfLost / IfTied lies in
\* [minimum, maximum].
C2_WithinOrderedBounds ==
  (op \in RatingOps /\ FiniteBounds /\ Le(minimum, maximum))
    => (Le(minimum, ret) /\ Le(ret, maximum))

\* a rating far below the floor came back as the floor
C2_Witness ==
  /\ op = "newRating"
  /\ minimum = Whole(100)
  /\ maximum = Whole(2000)
  /\ args[3] = Whole(-500)
  /\ ret = Whole(100)

\* the integer nearest to x (in units of 1/ONE), an exact half going up:
\* the one n with n - 1/2 <= x < n + 1/2
NearestHalfUp(x) ==
  CHOOSE n \in (x \div ONE - 1)..(x \div ONE + 1) :
    (2 * n - 1) * ONE <= 2 * x /\ 2 * x < (2 * n + 1) * ONE

\* minimum when v is below it, else maximum when v is above it, else v
Clamped(v) ==
  IF Lt(v, minimum) THEN minimum
  ELSE IF Gt(v, maximum) THEN maximum
  ELSE v

\* C3: newRating(expected, actual, previous) is
\* clamp(round(previous + K * (actual - expected))), round being the
\* nearest integer with an exact half going toward +Infinity (negative
\* values too), clamp giving minimum below minimum, maximum above maximum;
\* and with K = 32, newRating(2.867, 3, 1613) = 1617.
C3_RoundThenClamp ==
  /\ (op = "newRating" /\ getKFactor(args[3]).t = "number")
       => LET K   == getKFactor(args[3]).n \div ONE
              raw == args[3].n + K * (args[2].n - args[1].n)
          IN  ret = Clamped(Whole(NearestHalfUp(raw)))
  /\ (/\ op = "newRating"
      /\ k_factor = Whole(32)
      /\ args = <<Num(2867 * (ONE \div 1000)), Whole(3), Whole(1613)>>
      /\ Le(minimum, Whole(1617))
      /\ Le(Whole(1617), maximum))
       => ret = Whole(1617)

\* K = 31: -500 + 31 * (0 - 0.5) = -515.5, rounded up to -515
C3_Witness ==
  /\ op = "newRating"
  /\ k_factor = Whole(31)
  /\ args = <<Num(ONE \div 2), Whole(0), Whole(-500)>>
  /\ minimum = Whole(-2000)
  /\ ret = Whole(-515)

\* C5: newRatingIfWon(r, o) = newRating(expectedScore(r, o), 1, r),
\* newRatingIfLost(r, o) = newRating(expectedScore(r, o), 0, r) and
\* newRatingIfTied(r, o) = newRating(expectedScore(r, o), 0.5, r), under
\* every policy and all bounds.
C5_WrappersAreNewRating ==
  /\ op = "newRatingIfWon"
       => ret = newRating(expectedScore(args[1], args[2]), Whole(1), args[1])
  /\ op = "newRatingIfLost"
       => ret = newRating(expectedScore(args[1], args[2]), Whole(0), args[1])
  /\ op = "newRatingIfTied"
       => ret = newRating(expectedScore(args[1], args[2]), Num(ONE \div 2), args[1])

\* a tie against a stronger opponent under a table policy moved the rating
C5_Witness ==
  /\ op = "newRatingIfTied"
  /\ k_factor = BandTable
  /\ args = <<Whole(950), Whole(2000)>>
  /\ Gt(ret, Whole(950))

(***************************************************************************)
(* Configuration: setters, getters, constructor.                           *)
(***************************************************************************)
\* C6: setKFactor(policy) installs the given policy, and a falsy argument
\* installs the constant 32: the getKFactor that follows setKFactor(x) with
\* x falsy returns 32, whatever the policy was before.
C6_FalsyResetsTo32 ==
  [][/\ (op' = "setKFactor" /\ Truthy(args'[1])) => k_factor' = args'[1]
     /\ (op = "setKFactor" /\ ~Truthy(args[1]) /\ op' = "getKFactor")
          => ret' = Whole(32)]_vars

\* each setter returns the instance and writes its own field only
SettersWriteOwnField ==
  /\ op' = "setKFactor" => (ret' = This /\ minimum' = minimum /\ maximum' = maximum)
  /\ op' = "setMin" => (ret' = This /\ k_factor' = k_factor /\ maximum' = maximum)
  /\ op' = "setMax" => (ret' = This /\ k_factor' = k_factor /\ minimum' = minimum)

\* a field changes only in a call of its own setter
OnlyOwnSetterWrites ==
  /\ k_factor' # k_factor => op' = "setKFactor"
  /\ minimum' # minimum => op' = "setMin"
  /\ maximum' # maximum => op' = "setMax"

\* a getter reports its field as it stands; for a constant policy
\* getKFactor reports the constant
GettersReadFields ==
  /\ op' = "getMin" => ret' = minimum'
  /\ op' = "getMax" => ret' = maximum'
  /\ (op' = "getKFactor" /\ TypeofNumber(k_factor')) => ret' = k_factor'

\* C7 as stated: each setter returns the instance and changes its own
\* field only, and a getter reports the value most recently set for its
\* field: right after setMin(x), setMax(x), setKFactor(x) -- x not a
\* table -- getMin, getMax, getKFactor return x.
C7_ReportsValueSet ==
  [][/\ SettersWriteOwnField
     /\ OnlyOwnSetterWrites
     /\ GettersReadFields
     /\ (op = "setMin" /\ op' = "getMin") => ret' = args[1]
     /\ (op = "setMax" /\ op' = "getMax") => ret' = args[1]
     /\ (op = "setKFactor" /\ args[1].t # "object" /\ op' = "getKFactor")
          => ret' = args[1]]_vars

\* C7 amended: as stated, except that after setKFactor(x) with x falsy
\* getKFactor returns 32; and the policy held after setKFactor(x) with x
\* not falsy is x.
C7_ReportsValueSetOr32 ==
  [][/\ SettersWriteOwnField
     /\ OnlyOwnSetterWrites
     /\ GettersReadFields
     /\ (op = "setMin" /\ op' = "getMin") => ret' = args[1]
     /\ (op = "setMax" /\ op' = "getMax") => ret' = args[1]
     /\ (op = "setKFactor" /\ args[1].t # "object" /\ op' = "getKFactor")
          => ret' = IF Truthy(args[1]) THEN args[1] ELSE Whole(32)
     /\ (op' = "setKFactor" /\ Truthy(args'[1])) => k_factor' = args'[1]]_vars

\* setMin(100) was called on a calculator whose two other fields had been
\* given values of their own, and those are still there
C7_Witness ==
  /\ op = "setMin"
  /\ args = <<Whole(100)>>
  /\ ret = This
  /\ minimum = Whole(100)
  /\ maximum = Whole(2800)
  /\ k_factor = Whole(31)

ReadOps ==
  {"getKFactor", "getMin", "getMax", "expectedScore", "bothExpectedScores",
   "newRating", "newRatingIfWon", "newRatingIfLost", "newRatingIfTied"}

\* C8: getKFactor, getMin, getMax, expectedScore, bothExpectedScores,
\* newRating and newRatingIfWon / IfLost / IfTied leave the policy (the
\* table's properties included), the minimum and the maximum as they were.
C8_ReadsLeaveConfiguration ==
  [][op' \in ReadOps => <<k_factor, minimum, maximum>>' = <<k_factor, minimum, maximum>>]_vars

\* a rating was computed under a table policy and finite bounds
C8_Witness ==
  /\ op = "newRating"
  /\ k_factor = BandTable
  /\ minimum = Whole(-2000)
  /\ maximum = Whole(2000)
  /\ args = <<Whole(0), Whole(1), Whole(950)>>
  /\ ret = Whole(1000)

\* C9: new ELO(k, min, max) with k falsy or absent has the constant
\* K-factor 32; with min absent the minimum -Infinity, with max absent the
\* maximum +Infinity; and with explicit values (k a number other than 0)
\* getKFactor(), getMin() and getMax() return those values.
C9_ConstructorDefaults ==
  op = "constructor" =>
    /\ ~Truthy(args[1]) => \A r \in RatingArgs : getKFactor(r) = Whole(32)
    /\ args[2] = Undefined => getMin = NegInfinity
    /\ args[3] = Undefined => getMax = Infinity
    /\ (args[1].t = "number" /\ Truthy(args[1])) => getKFactor(Undefined) = args[1]
    /\ args[2] # Undefined => getMin = args[2]
    /\ args[3] # Undefined => getMax = args[3]

\* new ELO(k, undefined, 2800): no minimum given, a maximum given
C9_Witness ==
  /\ op = "constructor"
  /\ args = <<Undefined, Undefined, Whole(2800)>>
  /\ k_factor = Whole(32)
  /\ minimum = NegInfinity
  /\ maximum = Whole(2800)

(***************************************************************************)
(* Sequences of updates.                                                   *)
(***************************************************************************)
\* the score a wrapper passes for the outcome
OutcomeOf(name) ==
  CASE name = "newRatingIfWon" -> Whole(1)
    [] name = "newRatingIfLost" -> Whole(0)
    [] name = "newRatingIfTied" -> Num(ONE \div 2)

\* C4: with a table policy the K of an update is the table's K for the
\* rating before the update, never for the rating after it:
\* newRatingIf*(r, o) = clamp(round(r + K(r) * (outcome - expectedScore(r, o)))).
\* With {default: 100, 0: 50, 1000: 25}, bounds [-2000, 2000] and an
\* opponent at 2000, a win takes 950 to 1000 (K = 50) and then 1000 to 1025
\* (K = 25), 500 to 550 and -500 to -400.
C4_KOfPreviousRating ==
  /\ (/\ pc = "match"
      /\ op \in RatingOps
      /\ k_factor.t = "object"
      /\ Documented(k_factor, args[1]).t = "number")
       => ret = Clamped(MathRound(Add(args[1],
                  Mul(Documented(k_factor, args[1]),
                      Sub(OutcomeOf(op), expectedScore(args[1], args[2]))))))
  /\ (/\ pc = "match"
      /\ op = "newRatingIfWon"
      /\ k_factor = BandTable
      /\ args[2] = Whole(2000))
       => /\ args[1] = Whole(950) => ret = Whole(1000)
          /\ args[1] = Whole(1000) => ret = Whole(1025)
          /\ args[1] = Whole(500) => ret = Whole(550)
          /\ args[1] = Whole(-500) => ret = Whole(-400)

\* the second win of the player who started at 950: 1000 -> 1025
C4_SecondWin ==
  /\ pc = "match"
  /\ op = "newRatingIfWon"
  /\ k_factor = BandTable
  /\ args = <<Whole(1000), Whole(2000)>>
  /\ player_rating = Whole(1025)

\* C10: under new Elo(32, 100, 2800), from every integer rating in
\* [100, 2800], rating = newRating(1, 0, rating) repeated reaches 100 and
\* stays there, never going lower; rating = newRating(0, 1, rating)
\* repeated reaches 2800 and stays there, never going higher.
C10_DrivenToTheBound ==
  /\ [](pc # "start" => (Le(Whole(100), player_rating) /\ Le(player_rating, Whole(2800))))
  /\ <>[](\/ (pc = "lose" /\ player_rating = Whole(100))
          \/ (pc = "win" /\ player_rating = Whole(2800)))

\* a loss at the floor: newRating(1, 0, 100) gave 100 again
C10_Witness ==
  /\ pc = "lose"
  /\ op = "newRating"
  /\ args = <<Whole(1), Whole(0), Whole(100)>>
  /\ player_rating = Whole(100)

(***************************************************************************)
(* Constant policy.                                                        *)
(***************************************************************************)
\* C11: when the policy is a constant number, getKFactor(r) is that number
\* for every r -- no argument, null, 0, a negative rating, -Infinity,
\* +Infinity: the value a getKFactor call returned is the constant, and so
\* is the value it would return for each of the other arguments.
C11_ConstantIgnoresRating ==
  k_factor.t = "number" =>
    /\ op = "getKFactor" => ret = k_factor
    /\ \A r \in RatingArgs : getKFactor(r) = k_factor

\* getKFactor(-Infinity) under the constant 20
C11_Witness ==
  /\ op = "getKFactor"
  /\ k_factor = Whole(20)
  /\ args = <<NegInfinity>>
  /\ ret = Whole(20)

(***************************************************************************)
(* Expected scores.                                                        *)
(***************************************************************************)
\* the tolerance of a sum or a comparison of two expected scores: one unit
\* of the number format, each score being rounded to half a unit
Tolerance == Num(1)

\* |x - y| <= tol
Within(x, y, tol) == Le(Sub(x, tol), y) /\ Le(y, Add(x, tol))

ScoreFormula(r, o) ==
  Div(Whole(1), Add(Whole(1), MathPow10(Div(Sub(o, r), Whole(400)))))

\* the call returned the formula's value, whatever the configuration; the
\* formula's value is 1/2 at equal ratings, 0.7597 for 1400 against 1200
\* and the published 0.506 (to 0.001) for 1613 against 1609
ReturnsScoreFormula ==
  op = "expectedScore" =>
    /\ ret = ScoreFormula(args[1], args[2])
    /\ args[1] = args[2] => ret = Num(ONE \div 2)
    /\ args = <<Whole(1400), Whole(1200)>> => Within(Num(7597), ret, Tolerance)
    /\ args = <<Whole(1613), Whole(1609)>> => Within(Num(5060), ret, Num(10))

\* C14 as stated: expectedScore(rating, opponent) returns
\* 1 / (1 + 10^((opponent - rating)/400)), whatever the configuration, and
\* the result is strictly between 0 and 1.
C14_FormulaStrictlyInside ==
  /\ ReturnsScoreFormula
  /\ op = "expectedScore" => (Gt(ret, Whole(0)) /\ Lt(ret, Whole(1)))

\* C14 amended: expectedScore(rating, opponent) returns
\* 1 / (1 + 10^((opponent - rating)/400)), whatever the configuration; the
\* result lies in [0, 1]; for integer ratings it is strictly between 0 and
\* 1 when -123302 < rating - opponent < 6382, exactly 1 when
\* rating - opponent >= 6382 and exactly 0 when opponent - rating >= 123302.
C14_FormulaInsideClosedUnit ==
  /\ ReturnsScoreFormula
  /\ op = "expectedScore" =>
       LET gap == Sub(args[1], args[2])
       IN  /\ Le(Whole(0), ret) /\ Le(ret, Whole(1))
           /\ (Lt(Whole(-123302), gap) /\ Lt(gap, Whole(6382)))
                => (Gt(ret, Whole(0)) /\ Lt(ret, Whole(1)))
           /\ Le(Whole(6382), gap) => ret = Whole(1)
           /\ Le(gap, Whole(-123302)) => ret = Whole(0)

\* the widest gap of the model below 6382: the score is below 1, by less
\* than the number format shows
C14_Witness ==
  /\ op = "expectedScore"
  /\ args = <<Whole(6381), Whole(0)>>
  /\ ret = BelowOne
  /\ maximum = Whole(2500)

\* C15: bothExpectedScores(A, B) returns the pair whose first element is
\* expectedScore(A, B) and whose second element is expectedScore(B, A).
C15_BothScoresInOrder ==
  op = "bothExpectedScores" =>
    /\ ret.t = "array"
    /\ Len(ret.tbl) = 2
    /\ ret.tbl[1] = expectedScore(args[1], args[2])
    /\ ret.tbl[2] = expectedScore(args[2], args[1])

\* bothExpectedScores(1400, 1200): the higher score comes first
C15_Witness ==
  /\ op = "bothExpectedScores"
  /\ args = <<Whole(1400), Whole(1200)>>
  /\ Gt(ret.tbl[1], ret.tbl[2])

(***************************************************************************)
(* Matches between equal ratings; players the table has no K for.          *)
(***************************************************************************)
\* a match between two players of the same rating was scored under a
\* constant integer K and no bounds
EqualMatch ==
  /\ op \in {"newRatingIfWon", "newRatingIfLost", "newRatingIfTied"}
  /\ args[1] = args[2]
  /\ k_factor.t = "number"
  /\ k_factor.n % ONE = 0
  /\ minimum = NegInfinity
  /\ maximum = Infinity

\* C16 as stated: at equal ratings r, under a constant integer K and no
\* bounds, the winner gains what the loser loses,
\* newRatingIfWon(r, r) - r = r - newRatingIfLost(r, r), for every K, and
\* newRatingIfTied(r, r) = r.
C16_EqualRatingsConserve ==
  EqualMatch =>
    /\ op = "newRatingIfWon"
         => Sub(ret, args[1]) = Sub(args[1], newRatingIfLost(args[1], args[2]))
    /\ op = "newRatingIfLost"
         => Sub(newRatingIfWon(args[1], args[2]), args[1]) = Sub(args[1], ret)
    /\ op = "newRatingIfTied" => ret = args[1]

\* C16 amended: at equal ratings r, under a constant integer K >= 0 and no
\* bounds, the winner gains floor((K + 1) / 2) and the loser loses
\* floor(K / 2) -- the same for an even K, one more than the loser loses
\* for an odd K -- and newRatingIfTied(r, r) = r.
C16_EqualRatingsHalfK ==
  EqualMatch =>
    LET K == k_factor.n \div ONE
    IN  /\ op = "newRatingIfWon" => Sub(ret, args[1]) = Whole((K + 1) \div 2)
        /\ op = "newRatingIfLost" => Sub(args[1], ret) = Whole(K \div 2)
        /\ newRatingIfWon(args[1], args[2]) = Add(args[1], Whole((K + 1) \div 2))
        /\ newRatingIfLost(args[1], args[2]) = Sub(args[1], Whole(K \div 2))
        /\ op = "newRatingIfTied" => ret = args[1]

\* K = 31: the loser of a match at 1200 each drops 15, to 1185
C16_Witness ==
  /\ op = "newRatingIfLost"
  /\ k_factor = Whole(31)
  /\ minimum = NegInfinity
  /\ maximum = Infinity
  /\ args = <<Whole(1200), Whole(1200)>>
  /\ ret = Whole(1185)

\* C17: under a table policy that has no K for the previous rating (no
\* threshold <= it and no 'default' entry: getKFactor yields null),
\* newRating(expected, actual, previous) returns previous, rounded and
\* clamped to [minimum, maximum], for every expected and actual score.
C17_NoKNoMove ==
  (/\ op = "newRating"
   /\ k_factor.t = "object"
   /\ getKFactor(args[3]) = Null)
    => ret = Clamped(Whole(NearestHalfUp(args[3].n)))

\* a win against expectation at -500 under {0: 32, 2100: 24, 2400: 16}
\* left the rating at -500
C17_Witness ==
  /\ op = "newRating"
  /\ k_factor = UscfTable
  /\ minimum = Whole(-2000)
  /\ args = <<Whole(0), Whole(1), Whole(-500)>>
  /\ ret = Whole(-500)

====
